---- MODULE Spec2Model ----
(***************************************************************************)
(* Model of arix-xmas-tree/src/App.tsx: the particle layout generator      *)
(* (generateData), the per-frame transform animator (the useFrame callback *)
(* of SignatureTree) and the two-valued mode toggle of App.                *)
(*                                                                         *)
(* Numbers are fixed point.  Lengths, scales and sines are in thousandths  *)
(* (Milli), angles handed to Sin/Cos in hundredths of a radian, rotations  *)
(* in thousandths of a radian, progress in units of 1/PScale, time and     *)
(* frame deltas in units of 1/DeltaDen second.  Products are rounded down  *)
(* where the source rounds to the nearest float.                           *)
(***************************************************************************)
EXTENDS Integers, Sequences, FiniteSets, TLC

\* ---- bounds of the model ----
MaxCount == 4
NSeeds == 2
MaxDeltaN == 4
MaxTime == 5
MaxAbsProgress == 2

\* ---- units ----
Milli == 10 * 100
PScale == 2 * 8
DeltaDen == 2 * 2
RandDen == 2 * 4

\* ---- configuration ----
CONFIG ==
  [count |-> 1200, colors |-> <<"#003311", "#005522", "#FFD700", "#E6C200">>,
   scatterRadius |-> 20, treeHeight |-> 9, treeRadius |-> 4, animSpeed |-> 2]

Modes == {"SCATTERED", "TREE_SHAPE"}

\* ---- arithmetic of the runtime, in fixed point ----
Abs(x) == IF x < 0 THEN -x ELSE x

\* Math.PI in hundredths of a radian
PiC == 314

\* Math.sin on [0, pi] (Bhaskara's rational approximation, error < 0.002)
SinPos(x) == (16 * x * (PiC - x) * Milli) \div (5 * PiC * PiC - 4 * x * (PiC - x))

\* Math.sin: argument in hundredths of a radian, result in thousandths
Sin(x) ==
  LET m == x % (2 * PiC)
  IN IF m <= PiC THEN SinPos(m) ELSE -SinPos(m - PiC)

\* Math.cos
Cos(x) == Sin(x + PiC \div 2)

\* Math.cbrt(n / RandDen), in thousandths, on the sampled variates n = 0..7
Cbrt(n) == <<0, 500, 630, 721, 794, 855, 909, 956>>[n + 1]

\* Math.acos(2 * n / RandDen - 1), in hundredths of a radian
Acos(n) == <<314, 242, 209, 182, 157, 132, 105, 72>>[n + 1]

\* THREE.Color.set(hex).toArray: the r, g, b bytes of the hex string
ColorRGB(c) ==
  CASE c = "#003311" -> <<0, 51, 17>>
    [] c = "#005522" -> <<0, 85, 34>>
    [] c = "#FFD700" -> <<255, 215, 0>>
    [] c = "#E6C200" -> <<230, 194, 0>>

\* THREE.MathUtils.lerp(x, y, t) = (1 - t) * x + t * y, with t = tn / td
Lerp(x, y, tn, td) == ((td - tn) * x + tn * y) \div td

\* Math.random(): the k-th variate of the stream `s`, as a numerator over RandDen
random(s, k) == (3 * s + 5 * k + (k \div RandDen)) % RandDen

VARIABLES
  pc,               \* "gen" (inside generateData), "mount", "run"
  count,            \* generateData's argument
  seed,             \* which random stream Math.random yields
  loopI,            \* the loop index i of generateData
  scatterPositions, \* Float32Array(totalCount * 3)
  treePositions,    \* Float32Array(totalCount * 3)
  colors,           \* Float32Array(totalCount * 3)
  scales,           \* Float32Array(totalCount)
  mode,             \* App's useState
  progress,         \* SignatureTree's progress ref (units of 1/PScale)
  elapsedTime,      \* state.clock.elapsedTime (units of 1/DeltaDen s)
  instanceMatrix,   \* the InstancedMesh's per-instance transforms
  lastOp,           \* the handler that ran last
  lastDelta         \* the delta of the last frame

vars == <<pc, count, seed, loopI, scatterPositions, treePositions, colors,
          scales, mode, progress, elapsedTime, instanceMatrix, lastOp, lastDelta>>

buffers == <<scatterPositions, treePositions, colors, scales>>

\* ---- generateData ----
totalCountMut(n) == n
totalCountOf(n) == n + 1

totalCount == totalCountOf(count)

\* a typed array write: out-of-range indices are ignored
SetAt(a, k, v) == IF k \in DOMAIN a THEN [a EXCEPT ![k] = v] ELSE a

Set3(a, i3, v) == SetAt(SetAt(SetAt(a, i3, v[1]), i3 + 1, v[2]), i3 + 2, v[3])

\* scatter position of body particle: uniform point of a ball, lifted by treeHeight / 2
scatterBody(s, i) ==
  LET r == CONFIG.scatterRadius * Cbrt(random(s, 6 * i))
      theta == (random(s, 6 * i + 1) * 2 * PiC) \div RandDen
      phi == Acos(random(s, 6 * i + 2))
  IN << (((r * Sin(phi)) \div Milli) * Cos(theta)) \div Milli,
        (((r * Sin(phi)) \div Milli) * Sin(theta)) \div Milli
           + (CONFIG.treeHeight * Milli) \div 2,
        (r * Cos(phi)) \div Milli >>

radiusAtYMut(i, n) == (i * CONFIG.treeRadius * Milli) \div n
radiusAtY(i, n) == ((n - i) * CONFIG.treeRadius * Milli) \div n

\* tree position of body particle i of n: the spiral on the cone
treeBody(i, n) ==
  LET y == (i * CONFIG.treeHeight * Milli) \div n
      angle == i * 240
  IN << (Cos(angle) * radiusAtY(i, n)) \div Milli,
        y - (CONFIG.treeHeight * Milli) \div 2,
        (Sin(angle) * radiusAtY(i, n)) \div Milli >>

colorBody(s, i) ==
  LET colorSet == IF random(s, 6 * i + 3) * 10 > 6 * RandDen THEN 2 ELSE 0
      pick == colorSet + ((random(s, 6 * i + 4) * 2) \div RandDen)
  IN ColorRGB(CONFIG.colors[pick + 1])

scaleBody(s, i) == (random(s, 6 * i + 5) * 600) \div RandDen + 150

scatterStar(s, n) ==
  << ((random(s, 6 * n) * Milli) \div RandDen - 500) * 5,
     (CONFIG.treeHeight + 5) * Milli,
     ((random(s, 6 * n + 1) * Milli) \div RandDen - 500) * 5 >>

treeStar == <<0, (CONFIG.treeHeight * Milli) \div 2 + 800, 0>>

colorStar == ColorRGB(CONFIG.colors[3])

scaleStar == 2500

Zeros(n) == [k \in 0 .. n - 1 |-> 0]

Init ==
  /\ pc = "gen"
  /\ count \in 0 .. MaxCount
  /\ seed \in 0 .. NSeeds - 1
  /\ loopI = 0
  /\ scatterPositions = Zeros(totalCount * 3)
  /\ treePositions = Zeros(totalCount * 3)
  /\ colors = Zeros(totalCount * 3)
  /\ scales = Zeros(totalCount)
  /\ mode = "TREE_SHAPE"
  /\ progress = 0
  /\ elapsedTime = 0
  /\ instanceMatrix = << >>
  /\ lastOp = "init"
  /\ lastDelta = 0

\* one iteration of the body loop of generateData
GenParticle ==
  /\ pc = "gen"
  /\ loopI < count
  /\ scatterPositions' = Set3(scatterPositions, loopI * 3, scatterBody(seed, loopI))
  /\ treePositions' = Set3(treePositions, loopI * 3, treeBody(loopI, count))
  /\ colors' = Set3(colors, loopI * 3, colorBody(seed, loopI))
  /\ scales' = SetAt(scales, loopI, scaleBody(seed, loopI))
  /\ loopI' = loopI + 1
  /\ UNCHANGED <<pc, count, seed, mode, progress, elapsedTime, instanceMatrix,
                 lastOp, lastDelta>>

\* the star, written at starIndex = count once the loop has ended
GenStar ==
  /\ pc = "gen"
  /\ ~(loopI < count)
  /\ scatterPositions' = Set3(scatterPositions, count * 3, scatterStar(seed, count))
  /\ treePositions' = Set3(treePositions, count * 3, treeStar)
  /\ colors' = Set3(colors, count * 3, colorStar)
  /\ scales' = SetAt(scales, count, scaleStar)
  /\ pc' = "mount"
  /\ UNCHANGED <<count, seed, loopI, mode, progress, elapsedTime, instanceMatrix,
                 lastOp, lastDelta>>

Identity == [pos |-> <<0, 0, 0>>, rot |-> <<0, 0, 0>>, scale |-> Milli]

\* <instancedMesh args={[undefined, undefined, totalCount]}> is committed
Mount ==
  /\ pc = "mount"
  /\ instanceMatrix' = [k \in 0 .. totalCount - 1 |-> Identity]
  /\ pc' = "run"
  /\ lastOp' = "mount"
  /\ UNCHANGED <<count, seed, loopI, buffers, mode, progress, elapsedTime, lastDelta>>

\* ---- SignatureTree's useFrame callback ----
isStarMut(i) == i = 0
isStar(i) == i = totalCount - 1

\* the relaxation target of progress: mode === 'TREE_SHAPE' ? 1 : 0
targetOf(m) == IF m = "TREE_SHAPE" THEN PScale ELSE 0

\* the indices the loop `for (let i = 0; i < totalCount; i++)` visits
frameIndicesMut == 0 .. count - 1
frameIndices == 0 .. totalCount - 1

\* isStar ? 0.5 : 1, in halves
frequency(star) == IF star THEN 1 ELSE 2

baseAmplitudeMut(star) == IF star THEN 50 ELSE 100
baseAmplitude(star) == IF star THEN 100 ELSE 50

\* (isStar ? 0.1 : 0.05) * (1 - t * 0.5), in units of 1 / (Milli * 2 * PScale)
amplitude(star, p) == baseAmplitude(star) * (2 * PScale - p)

\* Math.sin(time * freq + i * 0.1) * amplitude
floatY(i, time, p) ==
  LET phase == (time * 100 * frequency(isStar(i))) \div (DeltaDen * 2) + 10 * i
  IN (Sin(phase) * amplitude(isStar(i), p)) \div (Milli * 2 * PScale)

\* the position, rotation and scale set on `dummy` and stored by setMatrixAt
transform(i, time, p) ==
  LET i3 == i * 3
      x == Lerp(scatterPositions[i3], treePositions[i3], p, PScale)
      y == Lerp(scatterPositions[i3 + 1], treePositions[i3 + 1], p, PScale)
      z == Lerp(scatterPositions[i3 + 2], treePositions[i3 + 2], p, PScale)
  IN [pos |-> <<x, y + floatY(i, time, p), z>>,
      rot |-> << IF isStar(i) THEN 0
                 ELSE ((PScale - p) * time * Milli) \div (PScale * DeltaDen),
                 (time * 200) \div DeltaDen + 10 * i,
                 0 >>,
      scale |-> IF isStar(i) THEN scales[i]
                ELSE (scales[i] * (3 * PScale + 7 * p)) \div (10 * PScale)]

\* one frame: delta = dn / DeltaDen seconds have passed on the clock
Frame(dn) ==
  LET t == Lerp(progress, targetOf(mode), dn * CONFIG.animSpeed, DeltaDen)
      time == elapsedTime + dn
  IN /\ pc = "run"
     /\ time <= MaxTime
     /\ Abs(t) <= MaxAbsProgress * PScale
     /\ progress' = t
     /\ elapsedTime' = time
     /\ instanceMatrix' =
          [k \in DOMAIN instanceMatrix |->
             IF k \in frameIndices THEN transform(k, time, t) ELSE instanceMatrix[k]]
     /\ lastOp' = "frame"
     /\ lastDelta' = dn
     /\ UNCHANGED <<pc, count, seed, loopI, buffers, mode>>

\* ---- App: setMode(m => m === 'TREE_SHAPE' ? 'SCATTERED' : 'TREE_SHAPE') ----
toggleModeMut ==
  /\ pc = "run"
  /\ mode' = "SCATTERED"
  /\ lastOp' = "toggle"
  /\ UNCHANGED <<pc, count, seed, loopI, buffers, progress, elapsedTime,
                 instanceMatrix, lastDelta>>
toggleMode ==
  /\ pc = "run"
  /\ mode' = IF mode = "TREE_SHAPE" THEN "SCATTERED" ELSE "TREE_SHAPE"
  /\ lastOp' = "toggle"
  /\ UNCHANGED <<pc, count, seed, loopI, buffers, progress, elapsedTime,
                 instanceMatrix, lastDelta>>

NextFrame == \E dn \in 0 .. MaxDeltaN : Frame(dn)

Next == GenParticle \/ GenStar \/ Mount \/ NextFrame \/ toggleMode

Spec == Init /\ [][Next]_vars

\* ---- shared vocabulary of the properties ----
Between(x, a, b) == (a <= x /\ x <= b) \/ (b <= x /\ x <= a)

FrameStep == lastOp' = "frame"

TreeAt(k) == <<treePositions[3 * k], treePositions[3 * k + 1], treePositions[3 * k + 2]>>

ScatterAt(k) ==
  <<scatterPositions[3 * k], scatterPositions[3 * k + 1], scatterPositions[3 * k + 2]>>

\* C1: in every reachable state the shared progress value lies in [0, 1].
C1_ProgressInUnitInterval == 0 <= progress /\ progress <= PScale

\* C2: with the target held fixed and the same positive delta on every frame,
\* each frame moves progress monotonically toward the target: the distance to
\* the target never increases, progress never passes the target and never
\* leaves [0, 1].
C2_MonotoneConvergence ==
  [][ ( /\ FrameStep
        /\ lastDelta' > 0
        /\ \/ lastOp = "mount"
           \/ lastOp = "frame" /\ lastDelta = lastDelta' )
      => ( /\ Abs(progress' - targetOf(mode)) <= Abs(progress - targetOf(mode))
           /\ Between(progress', progress, targetOf(mode))
           /\ 0 <= progress' /\ progress' <= PScale ) ]_vars

\* C3: a toggle in the middle of a transition (0 < progress < 1) takes effect on
\* the very next frame: that frame moves progress from its pre-toggle value
\* toward the new target, so the progress it interpolates the positions at lies
\* between the pre-toggle progress and the new target.
C3_InterruptibleNoJump ==
  [][ ( /\ lastOp = "toggle"
        /\ FrameStep
        /\ 0 < progress /\ progress < PScale )
      => ( /\ Between(progress', progress, targetOf(mode))
           /\ \A k \in 0 .. count :
                /\ instanceMatrix'[k].pos[1]
                     = Lerp(ScatterAt(k)[1], TreeAt(k)[1], progress', PScale)
                /\ instanceMatrix'[k].pos[3]
                     = Lerp(ScatterAt(k)[3], TreeAt(k)[3], progress', PScale) ) ]_vars

\* C4: from the initial state (progress = 0) with count = 4, mode TREE_SHAPE,
\* animSpeed = 2.0 and deltaTime = 1.0, one frame leaves progress equal to 1.0
\* and every particle at its tree position plus only the vertical oscillation.
C4_EndToEndScenario ==
  [][ ( /\ pc = "run" /\ count = 4 /\ mode = "TREE_SHAPE" /\ progress = 0
        /\ FrameStep
        /\ lastDelta' = DeltaDen )
      => ( /\ progress' = PScale
           /\ \A k \in 0 .. count :
                /\ instanceMatrix'[k].pos[1] = TreeAt(k)[1]
                /\ instanceMatrix'[k].pos[3] = TreeAt(k)[3]
                /\ Abs(instanceMatrix'[k].pos[2] - TreeAt(k)[2]) <= 100 ) ]_vars

Generated == pc \in {"mount", "run"}

\* C5: for every count exactly one particle is the apex, and it is the highest
\* index (count = totalCount - 1) both in generateData and in the frame; its
\* tree position is exactly (0, treeHeight / 2 + 0.8, 0); in every frame its
\* tumbling (x) rotation is 0 while every other particle's is
\* (1 - progress) * elapsedTime.
C5_ApexInvariant ==
  /\ Generated =>
       /\ \A k \in DOMAIN scales : (scales[k] = 2500) <=> (k = count)
       /\ TreeAt(count) = <<0, 5300, 0>>
       /\ Cardinality({k \in 0 .. count : isStar(k)}) = 1
       /\ isStar(count)
  /\ lastOp = "frame" =>
       \A k \in 0 .. count :
         instanceMatrix[k].rot[1] =
           IF k = count THEN 0
           ELSE ((PScale - progress) * elapsedTime * Milli) \div (PScale * DeltaDen)

C5_Witness ==
  /\ lastOp = "frame"
  /\ count >= 2
  /\ 0 < progress /\ progress < PScale
  /\ instanceMatrix[0].rot[1] > 0
  /\ instanceMatrix[count].rot[1] = 0

\* C6 (as stated): with count = 0 generation yields an empty attribute set and
\* the frame update writes no transform.
C6_EmptyWhenCountZero ==
  (count = 0 /\ Generated) =>
    /\ DOMAIN scatterPositions = {} /\ DOMAIN treePositions = {}
    /\ DOMAIN colors = {} /\ DOMAIN scales = {}
    /\ \A k \in DOMAIN instanceMatrix : instanceMatrix[k] = Identity

\* C6 (amended): with count = 0 generation yields exactly one particle, the
\* apex, in every attribute buffer, and each frame update writes exactly one
\* transform, the apex's.
C6_OnlyApexWhenCountZero ==
  (count = 0 /\ Generated) =>
    /\ DOMAIN scatterPositions = 0 .. 2 /\ DOMAIN treePositions = 0 .. 2
    /\ DOMAIN colors = 0 .. 2 /\ DOMAIN scales = {0}
    /\ TreeAt(0) = <<0, 5300, 0>>
    /\ scales[0] = 2500
    /\ <<colors[0], colors[1], colors[2]>> = <<255, 215, 0>>
    /\ pc = "run" => DOMAIN instanceMatrix = {0}
    /\ lastOp = "frame" =>
         /\ instanceMatrix[0].scale = 2500
         /\ instanceMatrix[0].rot = <<0, (elapsedTime * 200) \div DeltaDen, 0>>
         /\ instanceMatrix[0].pos[1] = Lerp(ScatterAt(0)[1], 0, progress, PScale)

C6_Witness ==
  /\ count = 0
  /\ lastOp = "frame"
  /\ elapsedTime > 0
  /\ instanceMatrix[0] # Identity

\* C7 (as stated): in every frame the apex's oscillation amplitude is the same
\* for every progress value and smaller than the non-apex amplitude, its
\* frequency is slower, and the non-apex amplitude decreases as progress goes
\* from 0 to 1.
C7_ApexAmplitudeFixedSmaller ==
  lastOp = "frame" =>
    /\ amplitude(TRUE, progress) = amplitude(TRUE, 0)
    /\ amplitude(TRUE, progress) < amplitude(FALSE, progress)
    /\ frequency(TRUE) < frequency(FALSE)
    /\ \A p \in 0 .. PScale - 1 : amplitude(FALSE, p + 1) < amplitude(FALSE, p)

\* C7 (amended): in every frame each particle's vertical offset is
\* sin(elapsedTime * f + 0.1 * i) * A * (1 - 0.5 * progress) with f = 0.5 and
\* A = 0.1 for the apex, f = 1 and A = 0.05 for every other particle: the apex
\* amplitude is twice the non-apex amplitude at the same progress, its
\* frequency is slower, and both amplitudes decrease as progress goes from 0
\* to 1.
C7_OscillationAmplitudes ==
  lastOp = "frame" =>
    /\ \A k \in 0 .. count :
         instanceMatrix[k].pos[2]
           = Lerp(ScatterAt(k)[2], TreeAt(k)[2], progress, PScale)
             + (IF k = count
                  THEN (Sin((elapsedTime * 100) \div (DeltaDen * 2) + 10 * k)
                          * 100 * (2 * PScale - progress)) \div (Milli * 2 * PScale)
                  ELSE (Sin((elapsedTime * 100) \div DeltaDen + 10 * k)
                          * 50 * (2 * PScale - progress)) \div (Milli * 2 * PScale))
    /\ amplitude(TRUE, progress) = 2 * amplitude(FALSE, progress)
    /\ frequency(TRUE) < frequency(FALSE)
    /\ \A p \in 0 .. PScale - 1 :
         /\ amplitude(FALSE, p + 1) < amplitude(FALSE, p)
         /\ amplitude(TRUE, p + 1) < amplitude(TRUE, p)

C7_Witness ==
  /\ lastOp = "frame"
  /\ count >= 1
  /\ 0 < progress /\ progress < PScale
  /\ instanceMatrix[count].pos[2]
       # Lerp(ScatterAt(count)[2], TreeAt(count)[2], progress, PScale)
  /\ instanceMatrix[0].pos[2]
       # Lerp(ScatterAt(0)[2], TreeAt(0)[2], progress, PScale)

\* C8: generateData(count) fills four index-aligned buffers of exactly
\* count + 1 particle entries (3 floats per entry for the two position buffers
\* and the colors, 1 for the scales), writing each particle's entry once, in
\* index order; afterwards no frame and no toggle modifies any buffer, and each
\* frame writes exactly totalCount transforms, one per index 0 .. totalCount - 1.
C8_IndexAlignment ==
  /\ [] ( /\ DOMAIN scatterPositions = 0 .. 3 * (count + 1) - 1
          /\ DOMAIN treePositions = 0 .. 3 * (count + 1) - 1
          /\ DOMAIN colors = 0 .. 3 * (count + 1) - 1
          /\ DOMAIN scales = 0 .. count
          /\ Generated => TreeAt(count) = <<0, 5300, 0>> /\ scales[count] = 2500
          /\ pc = "run" => DOMAIN instanceMatrix = 0 .. count )
  /\ [][ pc = "gen" =>
           LET w == IF loopI < count THEN loopI ELSE count
           IN /\ \A k \in DOMAIN scales : k # w => scales'[k] = scales[k]
              /\ \A k \in DOMAIN colors :
                   k \notin 3 * w .. 3 * w + 2 =>
                     /\ scatterPositions'[k] = scatterPositions[k]
                     /\ treePositions'[k] = treePositions[k]
                     /\ colors'[k] = colors[k]
              /\ scales'[w] > 0
              /\ (loopI < count) => loopI' = loopI + 1
              /\ (loopI = count) => pc' = "mount" ]_vars
  /\ [][ pc # "gen" => UNCHANGED buffers ]_vars
  /\ [][ FrameStep =>
           /\ DOMAIN instanceMatrix' = 0 .. count
           /\ \A k \in 0 .. count :
                /\ instanceMatrix'[k].rot[2] = (elapsedTime' * 200) \div DeltaDen + 10 * k
                /\ k = count => instanceMatrix'[k].scale = 2500 ]_vars

C8_Witness ==
  /\ count = 3
  /\ lastOp = "frame"
  /\ elapsedTime > 0
  /\ \A k \in 0 .. count : instanceMatrix[k] # Identity /\ scales[k] > 0

\* squared horizontal radius of particle k's tree position
HorizontalRadius2(k) == TreeAt(k)[1] * TreeAt(k)[1] + TreeAt(k)[3] * TreeAt(k)[3]

\* C9: in the tree positions produced by generateData the horizontal radius is
\* non-increasing in the index i (as percent = i / count goes from 0 to 1) and
\* is exactly 0 at percent = 1.
C9_ConeMonotonicity ==
  Generated =>
    /\ \A a \in 0 .. count : \A b \in 0 .. count :
         a < b => HorizontalRadius2(a) >= HorizontalRadius2(b)
    /\ HorizontalRadius2(count) = 0
    /\ count > 0 => radiusAtY(count, count) = 0
    /\ count > 0 => HorizontalRadius2(0) = (CONFIG.treeRadius * Milli) * (CONFIG.treeRadius * Milli)

C9_Witness ==
  /\ Generated
  /\ count >= 3
  /\ \A a \in 0 .. count - 1 : HorizontalRadius2(a) > HorizontalRadius2(a + 1)

\* C10: the mode is always one of SCATTERED and TREE_SHAPE and starts at
\* TREE_SHAPE with progress 0; a toggle flips the mode to the other value and
\* has no synchronous effect: it leaves progress, the buffers and the emitted
\* transforms unchanged, and progress changes only in a frame update.
C10_ToggleFireAndForget ==
  /\ mode = "TREE_SHAPE" /\ progress = 0
  /\ [](mode \in Modes)
  /\ [][ lastOp' = "toggle" =>
           /\ mode' \in Modes /\ mode' # mode
           /\ progress' = progress
           /\ elapsedTime' = elapsedTime
           /\ instanceMatrix' = instanceMatrix
           /\ UNCHANGED buffers ]_vars
  /\ [][ mode' # mode => lastOp' = "toggle" ]_vars
  /\ [][ progress' # progress => (FrameStep /\ mode' = mode) ]_vars

C10_Witness ==
  /\ lastOp = "toggle"
  /\ mode = "TREE_SHAPE"
  /\ 0 < progress /\ progress < PScale
  /\ elapsedTime > 0
====
